---- MODULE Spec2Model ----
(***************************************************************************)
(* tp_timer: timestamping probe for network flow analysis                  *)
(* (net/ipv4/tp_timer.c, net/ipv4/tp_timer.h).                             *)
(*                                                                         *)
(* The module models the event log (tp_timer_space, tp_timer_count), its   *)
(* single producer tp_timer, the clock calibrator (cal_start, cal_stop,    *)
(* cal_sort) and the seq_file reader (seq_start/seq_show/seq_next/seq_stop,*)
(* tp_open/tp_release).                                                    *)
(*                                                                         *)
(* Six next-state relations are given over the same state:                 *)
(*   Spec      every handler is one atomic step, the clock standing still. *)
(*   SpecConc  tp_timer runs store by store beside a reader, no reset.     *)
(*   SpecReset tp_timer runs store by store beside tp_release.             *)
(*   SpecCal   every handler atomic, the clock advancing between readings. *)
(*   SpecReaders  two readers of the proc file, with the history of what   *)
(*             each was shown.                                             *)
(*   SpecScan  tp_timer_data scanning byte buffers, call by call.          *)
(***************************************************************************)
EXTENDS Integers, Sequences, FiniteSets

(***************************************************************************)
(* Program constants.  TP_TIMER_SPACE (500000 in the source) and           *)
(* TP_TIMER_CAL (100 in the source) are scaled down so that a full log and *)
(* a full calibration window are reachable.                                *)
(***************************************************************************)
TP_TIMER_SPACE == 3

TP_TIMER_CAL == 3

TP_TIMER_TRIMMEDMEAN == 5

TPS_SOCK == 1

TPS_SOCK_TRANS == 2

\* struct timeval: tv_usec counts microseconds of the current second.
USEC_PER_SEC == 1000 * 1000

\* unsigned long arithmetic wraps modulo 2^w.  The source's w is the machine
\* word; the model takes w = 30 because the checker's integers have 32 bits.
\* Every tv_usec (< 10^6) fits, and a wrapped difference is still larger than
\* every tv_usec.
ULONG_MOD == 2^30

\* (unsigned long) x
ToULong(x) == x % ULONG_MOD

\* (long) x for an unsigned long x: two's complement.
ToLong(x) == IF x >= ULONG_MOD \div 2 THEN x - ULONG_MOD ELSE x

(***************************************************************************)
(* Inputs.                                                                 *)
(***************************************************************************)
ProbeIds == {TPS_SOCK, TPS_SOCK_TRANS}

SeqNos == {5}

ThreadNos == {7}

Repeats == {3}

\* Clock readings do_gettimeofday can return: two seconds, and microsecond
\* values at both ends of the second.
ClockSecs == {10, 11}

ClockUsecs == {0, 3}

Times == [tv_sec : ClockSecs, tv_usec : ClockUsecs]

TimeLeq(s, t) ==
    \/ s.tv_sec < t.tv_sec
    \/ s.tv_sec = t.tv_sec /\ s.tv_usec <= t.tv_usec

\* The one reading used where the timestamps are not the subject.
LogTimes == {t \in Times : \A u \in Times : TimeLeq(t, u)}

Readers == {"r1", "r2"}

\* The reader that reads in sessions.
LogReaders == {"r1"}

(***************************************************************************)
(* struct tp_timer_data, and the zeroed slot memset leaves.                *)
(***************************************************************************)
ZeroSlot ==
    [count |-> 0, id |-> 0, seq |-> 0, threadnr |-> 0, timesrepeated |-> 0,
     tv_sec |-> 0, tv_usec |-> 0]

SlotIdx == 0 .. (TP_TIMER_SPACE - 1)

ZeroSpace == [k \in SlotIdx |-> ZeroSlot]

(***************************************************************************)
(* Calibration: cal_sort.                                                  *)
(* i and j are unsigned long: i = m-1 wraps for m = 0, and --j wraps below *)
(* 0.  An access a[k] with k outside 0..TP_TIMER_CAL-1 leaves cal_list.    *)
(* The scans return "oob" at the first such access.                        *)
(***************************************************************************)
CalIdx == 0 .. (TP_TIMER_CAL - 1)

InWindow(k) == k \in CalIdx

RECURSIVE ScanUp(_, _, _)
\* do { ++i; } while (a[i] < v);   the i it stops at, or -1 when a[i] is
\* outside the window
ScanUp(a, i, v) ==
    LET i1 == ToULong(i + 1)
    IN  IF ~InWindow(i1) THEN -1
        ELSE IF a[i1] < v THEN ScanUp(a, i1, v)
        ELSE i1

RECURSIVE ScanDown(_, _, _)
\* do { --j; } while (a[j] > v);
ScanDown(a, j, v) ==
    LET j1 == ToULong(j - 1)
    IN  IF ~InWindow(j1) THEN -1
        ELSE IF a[j1] > v THEN ScanDown(a, j1, v)
        ELSE j1

Swap(a, p, q) == [a EXCEPT ![p] = a[q], ![q] = a[p]]

RECURSIVE Partition(_, _, _, _)
\* while (1) { scan i up; scan j down; if (i >= j) break; swap }
\* Returns the window, i, j, and whether an access left the window.
Partition(a, i, j, v) ==
    LET i1 == ScanUp(a, i, v)
    IN  IF i1 = -1 THEN [a |-> a, i |-> i, j |-> j, oob |-> TRUE]
        ELSE LET j1 == ScanDown(a, j, v)
             IN  IF j1 = -1 THEN [a |-> a, i |-> i1, j |-> j, oob |-> TRUE]
                 ELSE IF i1 >= j1 THEN [a |-> a, i |-> i1, j |-> j1, oob |-> FALSE]
                 ELSE Partition(Swap(a, i1, j1), i1, j1, v)

RECURSIVE CalSort(_, _, _)
\* cal_sort(a, m, n); [a, oob]
CalSort(a, m, n) ==
    IF n > m
    THEN LET p == Partition(a, ToULong(m - 1), n, a[n])
         IN  IF p.oob THEN [a |-> p.a, oob |-> TRUE]
             ELSE LET b == Swap(p.a, p.i, n)
                      l == CalSort(b, m, p.j)
                  IN  IF l.oob THEN l ELSE CalSort(l.a, p.i + 1, n)
    ELSE [a |-> a, oob |-> FALSE]

\* the integer mean of a[lo..hi-1] as cal_stop accumulates it into cal_mean
RECURSIVE SumFrom(_, _, _, _)
SumFrom(a, i, hi, acc) ==
    IF i < hi THEN SumFrom(a, i + 1, hi, ToULong(acc + a[i])) ELSE acc

\* (int)(TP_TIMER_CAL/100.0*TP_TIMER_TRIMMEDMEAN)
TrimLo == (TP_TIMER_CAL * TP_TIMER_TRIMMEDMEAN) \div 100

\* (int)(TP_TIMER_CAL/100.0*(100-TP_TIMER_TRIMMEDMEAN))
TrimHi == (TP_TIMER_CAL * (100 - TP_TIMER_TRIMMEDMEAN)) \div 100

\* for (i = TrimLo; i < TrimHi; i++) { cal_mean += cal_list[i]; count++; }
\* cal_mean /= count;
CalMean(a, mean0) == SumFrom(a, TrimLo, TrimHi, mean0) \div (TrimHi - TrimLo)

(***************************************************************************)
(* State.                                                                  *)
(***************************************************************************)
VARIABLES
    tp_timer_space,   \* the log: SlotIdx -> struct tp_timer_data
    tp_timer_count,   \* number of entries stored
    cal_usec,         \* baseline of the running measurement
    cal_mean,         \* the correction
    cal_list,         \* the sample window: CalIdx -> unsigned long
    cal_count,        \* samples taken; TP_TIMER_CAL + 1 once converged
    now,              \* the last reading of the wall clock
    rd,               \* per reader: the open file and its seq_file cursor
    pp,               \* tp_timer's position and locals (store-by-store runs)
    rel,              \* tp_release's position (store-by-store runs)
    oops,             \* cal_sort left cal_list: the kernel faulted
    appended,         \* history: arguments, clock reading and correction of
                      \* every append completed since the last reset
    last,             \* history: the last producer or release call and
                      \* how full the log was at the last reset
    fed,              \* history: appends that passed the capacity check,
                      \* counted up to TP_TIMER_CAL + 1
    collected,        \* history: the samples fed to the window, in order
    base,             \* history: the clock reading of the last cal_start that
                      \* recorded a baseline, <<>> before the first
    scan,             \* tp_timer_data's position, buffer and pending appends
    hist              \* history, kept where hist.on: per reader, the lines of
                      \* the records resident when it was opened, the first
                      \* TP_TIMER_SPACE lines it was shown since, and the
                      \* slots it was shown since the log was last cleared

vars ==
    <<tp_timer_space, tp_timer_count, cal_usec, cal_mean, cal_list, cal_count,
      now, rd, pp, rel, oops, appended, last, fed, collected, base, scan, hist>>

logVars == <<tp_timer_space, tp_timer_count>>

calVars == <<cal_usec, cal_mean, cal_list, cal_count>>

ClosedReader ==
    [pc |-> "closed", spos |-> 0, pos |-> 0, start |-> 0, clean |-> TRUE,
     out |-> <<>>]

IdleProducer == [pc |-> "idle"]

IdleRelease == [pc |-> "idle"]

\* tp_timer_data is not running, and has not run yet
IdleScan == [pc |-> "idle", result |-> "none"]

NoHistory ==
    [on |-> FALSE, resident |-> [r \in Readers |-> <<>>],
     head |-> [r \in Readers |-> <<>>], seen |-> [r \in Readers |-> {}]]

\* tp_timer_init, and the static initialisers of tp_timer.c
Started ==
    /\ tp_timer_space = ZeroSpace
    /\ tp_timer_count = 0
    /\ cal_usec = 0
    /\ cal_mean = 0
    /\ cal_list = [k \in CalIdx |-> 0]
    /\ cal_count = 0
    /\ now \in {t \in Times : \A u \in Times : TimeLeq(t, u)}
    /\ rd = [r \in Readers |-> ClosedReader]
    /\ pp = IdleProducer
    /\ rel = IdleRelease
    /\ oops = FALSE
    /\ appended = <<>>
    /\ last = [op |-> "init", reset |-> "none"]
    /\ fed = 0
    /\ collected = <<>>
    /\ base = <<>>
    /\ scan = IdleScan

Init == Started /\ hist = NoHistory

\* the same start, the readers' history kept
InitReaders == Started /\ hist = [NoHistory EXCEPT !.on = TRUE]

(***************************************************************************)
(* Calibration: cal_start, cal_stop.                                       *)
(***************************************************************************)
\* cal_start's effect on cal_usec when the clock reads t
CalStartUsec(t) ==
    IF cal_count >= TP_TIMER_CAL THEN cal_usec ELSE t.tv_usec


\* lines 125 and 171: the calibrator has converged
Converged == cal_count >= TP_TIMER_CAL

\* mutant: cal_stop without its early return
CalStopNoGuard(usec) ==
    LET l1 == [cal_list EXCEPT ![cal_count] = ToULong(usec - cal_usec)]
        c1 == cal_count + 1
    IN  IF c1 = TP_TIMER_CAL
        THEN LET s == CalSort(l1, 0, TP_TIMER_CAL - 1)
             IN  IF s.oob
                 THEN [list |-> s.a, count |-> c1, mean |-> cal_mean,
                       oob |-> TRUE]
                 ELSE [list |-> s.a, count |-> c1 + 1,
                       mean |-> CalMean(s.a, cal_mean), oob |-> FALSE]
        ELSE [list |-> l1, count |-> c1, mean |-> cal_mean, oob |-> FALSE]

\* mutant: the correction follows every sample while collecting
CalStopEagerMean(usec) ==
    IF Converged
    THEN [list |-> cal_list, count |-> cal_count, mean |-> cal_mean, oob |-> FALSE]
    ELSE LET l1 == [cal_list EXCEPT ![cal_count] = ToULong(usec - cal_usec)]
             c1 == cal_count + 1
         IN  IF c1 = TP_TIMER_CAL
             THEN LET s == CalSort(l1, 0, TP_TIMER_CAL - 1)
                  IN  IF s.oob
                      THEN [list |-> s.a, count |-> c1, mean |-> cal_mean,
                            oob |-> TRUE]
                      ELSE [list |-> s.a, count |-> c1 + 1,
                            mean |-> CalMean(s.a, cal_mean), oob |-> FALSE]
             ELSE [list |-> l1, count |-> c1,
                   mean |-> ToULong(usec - cal_usec), oob |-> FALSE]

\* cal_stop(usec): the new window, count and correction; oob when cal_sort
\* left the window (cal_count was already incremented, the mean not taken)
CalStop(usec) ==
    IF Converged
    THEN [list |-> cal_list, count |-> cal_count, mean |-> cal_mean, oob |-> FALSE]
    ELSE LET l1 == [cal_list EXCEPT ![cal_count] = ToULong(usec - cal_usec)]
             c1 == cal_count + 1
         IN  IF c1 = TP_TIMER_CAL
             THEN LET s == CalSort(l1, 0, TP_TIMER_CAL - 1)
                  IN  IF s.oob
                      THEN [list |-> s.a, count |-> c1, mean |-> cal_mean,
                            oob |-> TRUE]
                      ELSE [list |-> s.a, count |-> c1 + 1,
                            mean |-> CalMean(s.a, cal_mean), oob |-> FALSE]
             ELSE [list |-> l1, count |-> c1, mean |-> cal_mean, oob |-> FALSE]

\* What an out-of-window cal_sort can leave in cal_list: the scan of j ran
\* below a[0]; either the fault comes before any store, or a[0] was first
\* exchanged with a smaller word found below the window.
OobWindows(a) == {a, [a EXCEPT ![0] = 0]}

Mark(op) == [last EXCEPT !.op = op]

\* begin_measurement: cal_start() as tp_timer_data calls it before a scan
CalStart(t) ==
    /\ ~oops /\ pp.pc = "idle" /\ rel.pc = "idle"
    /\ TimeLeq(now, t)
    /\ now' = (IF cal_count >= TP_TIMER_CAL THEN now ELSE t)
    /\ cal_usec' = CalStartUsec(t)
    /\ base' = (IF cal_count >= TP_TIMER_CAL THEN base ELSE <<t>>)
    /\ UNCHANGED <<logVars, cal_mean, cal_list, cal_count, rd, pp, rel, oops,
                   appended, last, fed, collected, scan, hist>>

(***************************************************************************)
(* The log: tp_timer.                                                      *)
(***************************************************************************)
\* mutant: the bounds check lets one append through at capacity
LogFullOffByOne == tp_timer_count > TP_TIMER_SPACE

\* line 334: tp_timer_count >= TP_TIMER_SPACE
LogFull == tp_timer_count >= TP_TIMER_SPACE

\* mutant: seq and threadnr stored in each other's field
SlotHeaderSwapped(d, cnt, id, seq, threadnr, timesrepeated) ==
    [d EXCEPT !.count = cnt, !.id = id, !.seq = threadnr, !.threadnr = seq,
              !.timesrepeated = timesrepeated]

\* mutant: the ordinal taken after the increment
SlotHeaderOrdinal(d, cnt, id, seq, threadnr, timesrepeated) ==
    [d EXCEPT !.count = cnt + 1, !.id = id, !.seq = seq, !.threadnr = threadnr,
              !.timesrepeated = timesrepeated]

\* lines 340-345: the slot's fields other than the timestamp
SlotHeader(d, cnt, id, seq, threadnr, timesrepeated) ==
    [d EXCEPT !.count = cnt, !.id = id, !.seq = seq, !.threadnr = threadnr,
              !.timesrepeated = timesrepeated]

\* line 347: do_gettimeofday(&(data->ts))
SlotStamp(d, t) == [d EXCEPT !.tv_sec = t.tv_sec, !.tv_usec = t.tv_usec]

\* line 349: data->ts.tv_usec -= cal_mean  (long -= unsigned long)
SlotAdjust(d, mean) ==
    [d EXCEPT !.tv_usec = ToLong(ToULong(d.tv_usec - mean))]

Args(id, seq, threadnr, timesrepeated, t, corr) ==
    [id |-> id, seq |-> seq, threadnr |-> threadnr,
     timesrepeated |-> timesrepeated, t |-> t, corr |-> corr]

\* tp_timer(id, seq, threadnr, timesrepeated), the clock reading t; the
\* caller's state (scan) is left to the caller
TpTimer(id, seq, threadnr, timesrepeated, t) ==
    /\ ~oops /\ pp.pc = "idle" /\ rel.pc = "idle"
    /\ IF LogFull
       THEN /\ last' = Mark("rejected")
            /\ UNCHANGED <<logVars, calVars, now, rd, pp, rel, oops, appended,
                           fed, collected, base, hist>>
       ELSE /\ TimeLeq(now, t)
            /\ now' = t
            /\ fed' = (IF fed > TP_TIMER_CAL THEN fed ELSE fed + 1)
            /\ collected' =
                   (IF cal_count >= TP_TIMER_CAL THEN collected
                    ELSE Append(collected, ToULong(t.tv_usec - cal_usec)))
            /\ LET c  == CalStop(ToULong(t.tv_usec))
                   d1 == SlotStamp(
                             SlotHeader(tp_timer_space[tp_timer_count],
                                        tp_timer_count, id, seq, threadnr,
                                        timesrepeated), t)
               IN  IF c.oob
                   THEN /\ oops' = TRUE
                        /\ cal_list' \in OobWindows(c.list)
                        /\ cal_count' = c.count
                        /\ tp_timer_space' =
                               [tp_timer_space EXCEPT ![tp_timer_count] = d1]
                        /\ last' = Mark("oops")
                        /\ UNCHANGED <<tp_timer_count, cal_usec, cal_mean, rd,
                                       appended>>
                   ELSE /\ cal_list' = c.list
                        /\ cal_count' = c.count
                        /\ cal_mean' = c.mean
                        /\ tp_timer_space' =
                               [tp_timer_space EXCEPT
                                   ![tp_timer_count] = SlotAdjust(d1, c.mean)]
                        /\ tp_timer_count' = tp_timer_count + 1
                        /\ appended' =
                               Append(appended,
                                      Args(id, seq, threadnr, timesrepeated, t,
                                           c.mean))
                        /\ rd' = [r \in Readers |-> [rd[r] EXCEPT !.clean = FALSE]]
                        /\ last' = Mark("stored")
                        /\ UNCHANGED <<cal_usec, oops>>
            /\ UNCHANGED <<pp, rel, base, hist>>

\* tp_timer called on its own (tp_timer.h exports it), outside a scan
TpTimerDirect(id, seq, threadnr, timesrepeated, t) ==
    TpTimer(id, seq, threadnr, timesrepeated, t) /\ UNCHANGED scan

(***************************************************************************)
(* The payload scanner: tp_timer_data(id, data, tail).                     *)
(* Memory is a sequence of bytes; offset p (from data, 0 up) is mem[p+1].  *)
(* The buffer is the offsets below tail; the bytes from tail up to         *)
(* Len(mem) are whatever lies behind the buffer, and a read at or past     *)
(* Len(mem) faults.  Every scan operator carries hi, one more than the     *)
(* highest offset read so far.                                             *)
(***************************************************************************)
\* sizeof(int)
INT_BYTES == 4

\* one byte of 0xffffffff
FF == 255

\* the words of one field group: intdata += 4
STRIDE_WORDS == 4

\* the words of a pair, and of the sentinel: (int*)tail - 2, i < 2
PAIR_WORDS == 2

Max(a, b) == IF a > b THEN a ELSE b

\* the int at offset p lies in mapped memory
Mapped(mem, p) == p >= 0 /\ p + INT_BYTES <= Len(mem)

\* *(int*)(data + p) == 0xffffffff
AllOnes(mem, p) == \A k \in 1 .. INT_BYTES : mem[p + k] = FF

\* (unsigned int) *(int*)(data + p), little-endian; the inputs keep the top
\* byte below 128
IntAt(mem, p) ==
    mem[p + 1] + 256 * mem[p + 2] + 65536 * mem[p + 3] + 16777216 * mem[p + 4]

\* (short) count, the argument timesrepeated of tp_timer
ToShort(x) == ((x + 32768) % 65536) - 32768

RECURSIVE FindSentinel(_, _, _, _)
\* lines 227-243: the first offset, stepping by one byte, at which two
\* all-ones words are read; the second word is read only behind an all-ones
\* first word; the search gives up once data > tail
FindSentinel(mem, data, tail, hi) ==
    IF ~Mapped(mem, data)
    THEN [kind |-> "fault", data |-> data, hi |-> hi]
    ELSE IF ~AllOnes(mem, data)
    THEN IF data + 1 > tail
         THEN [kind |-> "malformed", data |-> data + 1,
               hi |-> Max(hi, data + INT_BYTES)]
         ELSE FindSentinel(mem, data + 1, tail, Max(hi, data + INT_BYTES))
    ELSE IF ~Mapped(mem, data + INT_BYTES)
    THEN [kind |-> "fault", data |-> data, hi |-> Max(hi, data + INT_BYTES)]
    ELSE IF AllOnes(mem, data + INT_BYTES)
    THEN [kind |-> "found", data |-> data,
          hi |-> Max(hi, data + PAIR_WORDS * INT_BYTES)]
    ELSE IF data + 1 > tail
    THEN [kind |-> "malformed", data |-> data + 1,
          hi |-> Max(hi, data + PAIR_WORDS * INT_BYTES)]
    ELSE FindSentinel(mem, data + 1, tail,
                      Max(hi, data + PAIR_WORDS * INT_BYTES))

RECURSIVE SentinelEnd(_, _, _)
\* lines 246-249: while both words at data are all ones, data++
SentinelEnd(mem, data, hi) ==
    IF ~Mapped(mem, data)
    THEN [kind |-> "fault", data |-> data, hi |-> hi]
    ELSE IF ~AllOnes(mem, data)
    THEN [kind |-> "ok", data |-> data, hi |-> Max(hi, data + INT_BYTES)]
    ELSE IF ~Mapped(mem, data + INT_BYTES)
    THEN [kind |-> "fault", data |-> data, hi |-> Max(hi, data + INT_BYTES)]
    ELSE IF ~AllOnes(mem, data + INT_BYTES)
    THEN [kind |-> "ok", data |-> data,
          hi |-> Max(hi, data + PAIR_WORDS * INT_BYTES)]
    ELSE SentinelEnd(mem, data + 1, Max(hi, data + PAIR_WORDS * INT_BYTES))

\* lines 250-255: data--; data += 8; intdata = (int*)data
PayloadStart(data) == data - 1 + PAIR_WORDS * INT_BYTES

\* the arguments of one call tp_timer(id, seq, threadnr, timesrepeated)
Call(seq, threadnr, count) ==
    [seq |-> seq, threadnr |-> threadnr, timesrepeated |-> ToShort(count)]

\* mutant: the count is not restarted when the pair changes
NextCountKept(differs, count) == count + 1

\* lines 264 and 269: count = 0 when the pair differs, then count++
NextCount(differs, count) == (IF differs THEN 0 ELSE count) + 1

\* mutant: the open run is logged only when it counts a pair
TrailingIfCounted(calls, lastSeq, lastThreadnr, count) ==
    IF count # 0 THEN Append(calls, Call(lastSeq, lastThreadnr, count))
    ELSE calls

\* line 273: tp_timer(id, lastSeq, lastThreadnr, count)
Trailing(calls, lastSeq, lastThreadnr, count) ==
    Append(calls, Call(lastSeq, lastThreadnr, count))

RECURSIVE Walk(_, _, _, _, _, _, _, _)
\* lines 258-273: the calls of tp_timer the walk makes, in order
Walk(mem, intdata, tail, lastSeq, lastThreadnr, count, calls, hi) ==
    IF intdata <= tail - PAIR_WORDS * INT_BYTES
    THEN LET seq      == IntAt(mem, intdata + INT_BYTES)
             threadnr == IntAt(mem, intdata)
             differs  == seq # lastSeq \/ threadnr # lastThreadnr
         IN  Walk(mem, intdata + STRIDE_WORDS * INT_BYTES, tail, seq, threadnr,
                  NextCount(differs, count),
                  IF differs /\ count # 0
                  THEN Append(calls, Call(lastSeq, lastThreadnr, count))
                  ELSE calls,
                  Max(hi, intdata + PAIR_WORDS * INT_BYTES))
    ELSE [calls |-> Trailing(calls, lastSeq, lastThreadnr, count), hi |-> hi]

\* tp_timer_data from line 226 on: how the scan ends, where the sentinel was
\* found, the payload start, the calls of tp_timer and the extent read
Scan(mem, tail) ==
    LET f == FindSentinel(mem, 0, tail, 0)
    IN  IF f.kind # "found"
        THEN [kind |-> f.kind, found |-> -1, start |-> -1, calls |-> <<>>,
              hi |-> f.hi]
        ELSE LET e == SentinelEnd(mem, f.data, f.hi)
             IN  IF e.kind = "fault"
                 THEN [kind |-> "fault", found |-> f.data, start |-> -1,
                       calls |-> <<>>, hi |-> e.hi]
                 ELSE LET w == Walk(mem, PayloadStart(e.data), tail, 0, 0, 0,
                                    <<>>, e.hi)
                      IN  [kind |-> "scanned", found |-> f.data,
                           start |-> PayloadStart(e.data), calls |-> w.calls,
                           hi |-> w.hi]

(***************************************************************************)
(* The buffers scanned.  A buffer is a prefix without sentinel, a run of   *)
(* 0xff bytes, a payload of field groups, and then the boundary; behind    *)
(* the boundary lies memory that is not the buffer's.                      *)
(***************************************************************************)
Rep(b, n) == [k \in 1 .. n |-> b]

\* the bytes of a small int
Word(x) == <<x, 0, 0, 0>>

\* a field group: stream id, sequence number, two more words
Group(threadnr, seq) ==
    Word(threadnr) \o Word(seq) \o Rep(0, (STRIDE_WORDS - PAIR_WORDS) * INT_BYTES)

\* the last field group, ending with its pair
LastGroup(threadnr, seq) == Word(threadnr) \o Word(seq)

Prefixes == {<<>>, <<FF, 0>>}

RunLens == {0, 7, 8, 12}

\* no payload, and one pair
ShortPayloads == {<<>>, LastGroup(1, 5)}

\* payloads of several field groups, and one too short for a pair
LongPayloads ==
    { Group(1, 5) \o Group(1, 5) \o Group(1, 5) \o LastGroup(1, 6),
      Group(0, 0) \o LastGroup(0, 0),
      Group(1, 5) \o LastGroup(2, 5),
      Rep(0, 7) }

\* what lies behind the boundary; the last one ends the mapped memory on
\* 0xff bytes
Beyonds == {Rep(0, 8), Rep(FF, 8) \o Rep(0, 8), Rep(FF, 8)}

Buffer(pre, n, pay, bey) ==
    [mem |-> pre \o Rep(FF, n) \o pay \o bey, tail |-> Len(pre) + n + Len(pay)]

Buffers ==
    { Buffer(pre, n, pay, bey) :
          pre \in Prefixes, n \in RunLens, pay \in ShortPayloads,
          bey \in Beyonds }
    \cup
    { Buffer(<<>>, 8, pay, Rep(0, 8)) : pay \in LongPayloads }

\* Scan over the input buffers, evaluated once
ScanOf == [b \in Buffers |-> Scan(b.mem, b.tail)]

\* tp_timer_data(id, data, tail) up to its first call of tp_timer, or to its
\* return: cal_start() at clock reading t, then the scan of the buffer.  A
\* read of unmapped memory faults.
TpTimerData(id, mem, tail, t) ==
    /\ ~oops /\ scan.pc = "idle" /\ pp.pc = "idle" /\ rel.pc = "idle"
    /\ TimeLeq(now, t)
    /\ now' = (IF cal_count >= TP_TIMER_CAL THEN now ELSE t)
    /\ cal_usec' = CalStartUsec(t)
    /\ base' = (IF cal_count >= TP_TIMER_CAL THEN base ELSE <<t>>)
    /\ LET sc == ScanOf[[mem |-> mem, tail |-> tail]]
       IN  /\ scan' = [pc |-> IF sc.calls # <<>> THEN "emit" ELSE "idle",
                       result |-> sc.kind, id |-> id, mem |-> mem,
                       tail |-> tail, found |-> sc.found, start |-> sc.start,
                       calls |-> sc.calls, todo |-> sc.calls, hi |-> sc.hi,
                       from |-> tp_timer_count]
           /\ oops' = (sc.kind = "fault")
    /\ UNCHANGED <<logVars, cal_mean, cal_list, cal_count, rd, pp, rel,
                   appended, last, fed, collected, hist>>

\* tp_timer_data at a call of tp_timer: lines 262 and 273
ScanEmit(t) ==
    /\ scan.pc = "emit"
    /\ LET c == Head(scan.todo)
       IN  TpTimer(scan.id, c.seq, c.threadnr, c.timesrepeated, t)
    /\ scan' = [scan EXCEPT !.todo = Tail(@),
                            !.pc = IF Len(scan.todo) = 1 THEN "idle" ELSE "emit"]

(***************************************************************************)
(* The reader: seq_operations and file_operations.  seq_read drives one    *)
(* session as start, then show and next in turn until next returns NULL    *)
(* or the page is full, then stop; the file keeps *pos between sessions.   *)
(***************************************************************************)
\* seq_printf(s, TP_TIMER_FORMAT, ...): the values in the order printed
Line(d) ==
    <<d.count, d.id, d.seq, d.threadnr, d.tv_sec, d.tv_usec, d.timesrepeated>>

\* the lines of the records in the log
Resident == [k \in 1 .. tp_timer_count |-> Line(tp_timer_space[k - 1])]

\* tp_open: seq_open starts the file at position 0
TpOpen(r) ==
    /\ ~oops /\ rd[r].pc = "closed"
    /\ rd' = [rd EXCEPT ![r] = [ClosedReader EXCEPT !.pc = "open"]]
    /\ hist' = (IF hist.on
                THEN [hist EXCEPT !.resident[r] = Resident, !.head[r] = <<>>,
                                  !.seen[r] = {}]
                ELSE hist)
    /\ UNCHANGED <<logVars, calVars, now, pp, rel, oops, appended, last, fed,
                   collected, base, scan>>

\* seq_start: a fresh cursor holding *pos
SeqStart(r) ==
    /\ ~oops /\ rd[r].pc = "open"
    /\ rd' = [rd EXCEPT ![r] = [@ EXCEPT !.pc = "show", !.spos = rd[r].pos,
                                         !.start = rd[r].pos, !.clean = TRUE,
                                         !.out = <<>>]]
    /\ UNCHANGED <<logVars, calVars, now, pp, rel, oops, appended, last, fed,
                   collected, base, scan, hist>>

\* seq_start when kmalloc fails: NULL, the session ends at once
SeqStartNoMem(r) ==
    /\ ~oops /\ rd[r].pc = "open"
    /\ UNCHANGED <<logVars, calVars, now, rd, pp, rel, oops, appended, last,
                   fed, collected, base, scan, hist>>

\* the history after a step of reader r that may have shown a line
ShownTo(r) ==
    IF Len(rd'[r].out) > Len(rd[r].out)
    THEN [hist EXCEPT
             !.head[r] = IF Len(@) < TP_TIMER_SPACE
                         THEN Append(@, rd'[r].out[Len(rd'[r].out)]) ELSE @,
             !.seen[r] = @ \cup {rd[r].spos}]
    ELSE hist

\* mutant: the cursor check lets the slot at the count through
SeqShowOffByOne(r) ==
    /\ ~oops /\ rd[r].pc = "show"
    /\ rd' = [rd EXCEPT ![r] =
                 [@ EXCEPT !.pc = "next",
                           !.out = IF rd[r].spos > tp_timer_count
                                      \/ rd[r].spos \notin SlotIdx
                                   THEN @
                                   ELSE Append(@, Line(tp_timer_space[rd[r].spos]))]]
    /\ hist' = (IF hist.on THEN ShownTo(r) ELSE hist)
    /\ UNCHANGED <<logVars, calVars, now, pp, rel, oops, appended, last, fed,
                   collected, base, scan>>

\* seq_show: prints the record under the cursor, nothing at or past the count
SeqShow(r) ==
    /\ ~oops /\ rd[r].pc = "show"
    /\ rd' = [rd EXCEPT ![r] =
                 [@ EXCEPT !.pc = "next",
                           !.out = IF rd[r].spos >= tp_timer_count
                                   THEN @
                                   ELSE Append(@, Line(tp_timer_space[rd[r].spos]))]]
    /\ hist' = (IF hist.on THEN ShownTo(r) ELSE hist)
    /\ UNCHANGED <<logVars, calVars, now, pp, rel, oops, appended, last, fed,
                   collected, base, scan>>

\* seq_next: NULL at or past the count, else *pos = ++(*spos)
SeqNext(r) ==
    /\ ~oops /\ rd[r].pc = "next"
    /\ rd' = [rd EXCEPT ![r] =
                 IF rd[r].spos >= tp_timer_count
                 THEN [@ EXCEPT !.pc = "end"]
                 ELSE [@ EXCEPT !.pc = "show", !.spos = @ + 1,
                                !.pos = rd[r].spos + 1]]
    /\ UNCHANGED <<logVars, calVars, now, pp, rel, oops, appended, last, fed,
                   collected, base, scan, hist>>

\* seq_stop: at the end of the sequence, or when the page is full
SeqStop(r) ==
    /\ ~oops /\ rd[r].pc \in {"show", "end"}
    /\ rd' = [rd EXCEPT ![r] = [@ EXCEPT !.pc = "open"]]
    /\ UNCHANGED <<logVars, calVars, now, pp, rel, oops, appended, last, fed,
                   collected, base, scan, hist>>

\* how full the log was when it was reset
ResetKind(n) ==
    IF n >= TP_TIMER_SPACE THEN "full" ELSE IF n = 0 THEN "empty" ELSE "partial"

\* mutant: the count is reset, the memory is not
TpReleaseNoMemset(r) ==
    /\ ~oops /\ rd[r].pc = "open" /\ pp.pc = "idle" /\ rel.pc = "idle"
    /\ scan.pc = "idle"
    /\ tp_timer_count' = 0
    /\ appended' = <<>>
    /\ rd' = [q \in Readers |->
                 IF q = r THEN ClosedReader ELSE [rd[q] EXCEPT !.clean = FALSE]]
    /\ last' = [op |-> "release", reset |-> ResetKind(tp_timer_count)]
    /\ hist' = [hist EXCEPT !.seen = [q \in Readers |-> {}]]
    /\ UNCHANGED <<tp_timer_space, calVars, now, pp, rel, oops, fed, collected,
                   base, scan>>

\* tp_release: memset the log, tp_timer_count = 0, then seq_release
TpRelease(r) ==
    /\ ~oops /\ rd[r].pc = "open" /\ pp.pc = "idle" /\ rel.pc = "idle"
    /\ scan.pc = "idle"
    /\ tp_timer_space' = ZeroSpace
    /\ tp_timer_count' = 0
    /\ appended' = <<>>
    /\ rd' = [q \in Readers |->
                 IF q = r THEN ClosedReader ELSE [rd[q] EXCEPT !.clean = FALSE]]
    /\ last' = [op |-> "release", reset |-> ResetKind(tp_timer_count)]
    /\ hist' = [hist EXCEPT !.seen = [q \in Readers |-> {}]]
    /\ UNCHANGED <<calVars, now, pp, rel, oops, fed, collected, base, scan>>

(***************************************************************************)
(* Spec: every handler is one atomic step, one clock reading.  Reader r1   *)
(* reads in sessions; the other reader opens and closes without reading,   *)
(* which resets the log under r1's cursor.                                 *)
(***************************************************************************)
Next ==
    \/ \E t \in LogTimes : CalStart(t)
    \/ \E id \in ProbeIds, seq \in SeqNos, threadnr \in ThreadNos,
          timesrepeated \in Repeats, t \in LogTimes :
          TpTimerDirect(id, seq, threadnr, timesrepeated, t)
    \/ \E r \in Readers : TpOpen(r)
    \/ \E r \in LogReaders : SeqStart(r)
    \/ \E r \in LogReaders : SeqStartNoMem(r)
    \/ \E r \in LogReaders : SeqShow(r)
    \/ \E r \in LogReaders : SeqNext(r)
    \/ \E r \in LogReaders : SeqStop(r)
    \/ \E r \in Readers : TpRelease(r)

Spec == Init /\ [][Next]_vars

(***************************************************************************)
(* SpecCal: atomic handlers, the clock advancing; the log is reset by a    *)
(* reader that opens and closes without reading.                           *)
(***************************************************************************)
NextCal ==
    \/ \E t \in Times : CalStart(t)
    \/ \E t \in Times : TpTimerDirect(TPS_SOCK, 5, 7, 3, t)
    \/ \E r \in LogReaders : TpOpen(r)
    \/ \E r \in LogReaders : TpRelease(r)

SpecCal == Init /\ [][NextCal]_vars


(***************************************************************************)
(* tp_timer store by store, in program order.                              *)
(***************************************************************************)
\* mutant: the count is incremented before the slot is written
TpEnterIncFirst(id, seq, threadnr, timesrepeated) ==
    /\ ~oops /\ pp.pc = "idle"
    /\ IF LogFull
       THEN /\ last' = Mark("rejected")
            /\ UNCHANGED <<pp, tp_timer_count>>
       ELSE /\ pp' = [pc |-> "hdr", data |-> tp_timer_count, id |-> id,
                      seq |-> seq, threadnr |-> threadnr,
                      timesrepeated |-> timesrepeated]
            /\ tp_timer_count' = tp_timer_count + 1
            /\ last' = last
    /\ UNCHANGED <<tp_timer_space, calVars, now, rd, rel, oops, appended, fed,
                   collected, base, scan, hist>>

\* lines 329-340: the bounds check, data = tp_timer_space + tp_timer_count
TpEnter(id, seq, threadnr, timesrepeated) ==
    /\ ~oops /\ pp.pc = "idle"
    /\ IF LogFull
       THEN /\ last' = Mark("rejected")
            /\ pp' = pp
       ELSE /\ pp' = [pc |-> "hdr", data |-> tp_timer_count, id |-> id,
                      seq |-> seq, threadnr |-> threadnr,
                      timesrepeated |-> timesrepeated]
            /\ last' = last
    /\ UNCHANGED <<logVars, calVars, now, rd, rel, oops, appended, fed,
                   collected, base, scan, hist>>

\* lines 341-345: data->count = tp_timer_count (read again, or kept in a
\* register since line 340), then id, seq, threadnr, timesrepeated
TpHdr ==
    /\ ~oops /\ pp.pc = "hdr"
    /\ \E cnt \in {tp_timer_count, pp.data} :
          tp_timer_space' =
              [tp_timer_space EXCEPT
                  ![pp.data] = SlotHeader(@, cnt, pp.id, pp.seq, pp.threadnr,
                                          pp.timesrepeated)]
    /\ pp' = [pp EXCEPT !.pc = "ts"]
    /\ UNCHANGED <<tp_timer_count, calVars, now, rd, rel, oops, appended, last,
                   fed, collected, base, scan, hist>>

\* lines 347-348: do_gettimeofday(&(data->ts)); cal_stop(data->ts.tv_usec)
TpStamp(t) ==
    /\ ~oops /\ pp.pc = "ts"
    /\ TimeLeq(now, t)
    /\ now' = t
    /\ fed' = (IF fed > TP_TIMER_CAL THEN fed ELSE fed + 1)
    /\ collected' =
           (IF cal_count >= TP_TIMER_CAL THEN collected
            ELSE Append(collected, ToULong(t.tv_usec - cal_usec)))
    /\ tp_timer_space' = [tp_timer_space EXCEPT ![pp.data] = SlotStamp(@, t)]
    /\ LET c == CalStop(ToULong(t.tv_usec))
       IN  /\ cal_count' = c.count
           /\ IF c.oob
              THEN /\ oops' = TRUE
                   /\ cal_list' \in OobWindows(c.list)
                   /\ last' = Mark("oops")
                   /\ UNCHANGED <<cal_mean, pp>>
              ELSE /\ cal_list' = c.list
                   /\ cal_mean' = c.mean
                   /\ pp' = [pc |-> "adj", data |-> pp.data, id |-> pp.id,
                             seq |-> pp.seq, threadnr |-> pp.threadnr,
                             timesrepeated |-> pp.timesrepeated, t |-> t]
                   /\ UNCHANGED <<oops, last>>
    /\ UNCHANGED <<tp_timer_count, cal_usec, rd, rel, appended, base, scan, hist>>

\* line 349: data->ts.tv_usec -= cal_mean, the last store to the slot
TpAdjust ==
    /\ ~oops /\ pp.pc = "adj"
    /\ tp_timer_space' =
           [tp_timer_space EXCEPT ![pp.data] = SlotAdjust(@, cal_mean)]
    /\ pp' = [pp EXCEPT !.pc = "inc"]
    /\ UNCHANGED <<tp_timer_count, calVars, now, rd, rel, oops, appended, last,
                   fed, collected, base, scan, hist>>

\* line 351: tp_timer_count++ (on the memory word, or on the register kept
\* since line 340)
TpInc ==
    /\ ~oops /\ pp.pc = "inc"
    /\ tp_timer_count' \in {tp_timer_count + 1, pp.data + 1}
    /\ appended' =
           Append(appended,
                  Args(pp.id, pp.seq, pp.threadnr, pp.timesrepeated, pp.t,
                       cal_mean))
    /\ rd' = [r \in Readers |-> [rd[r] EXCEPT !.clean = FALSE]]
    /\ pp' = IdleProducer
    /\ last' = Mark("stored")
    /\ UNCHANGED <<tp_timer_space, calVars, now, rel, oops, fed, collected, base, scan, hist>>

(***************************************************************************)
(* tp_release step by step: memset runs over the slots in address order,   *)
(* then the count is cleared.                                              *)
(***************************************************************************)
\* tp_release is entered: memset starts at slot 0
RelBegin(r) ==
    /\ ~oops /\ rd[r].pc = "open" /\ rel.pc = "idle"
    /\ rel' = [pc |-> "zero", k |-> 0, r |-> r,
               kind |-> ResetKind(tp_timer_count)]
    /\ UNCHANGED <<logVars, calVars, now, rd, pp, oops, appended, last, fed,
                   collected, base, scan, hist>>

\* line 98: memset zeroes the next slot
RelZero ==
    /\ ~oops /\ rel.pc = "zero" /\ rel.k \in SlotIdx
    /\ tp_timer_space' = [tp_timer_space EXCEPT ![rel.k] = ZeroSlot]
    /\ rel' = [rel EXCEPT !.k = @ + 1]
    /\ UNCHANGED <<tp_timer_count, calVars, now, rd, pp, oops, appended, last,
                   fed, collected, base, scan, hist>>

\* lines 99-102: tp_timer_count = 0; seq_release
RelCount ==
    /\ ~oops /\ rel.pc = "zero" /\ rel.k \notin SlotIdx
    /\ tp_timer_count' = 0
    /\ appended' = <<>>
    /\ rd' = [q \in Readers |->
                 IF q = rel.r THEN ClosedReader
                 ELSE [rd[q] EXCEPT !.clean = FALSE]]
    /\ last' = [op |-> "release", reset |-> rel.kind]
    /\ rel' = IdleRelease
    /\ UNCHANGED <<tp_timer_space, calVars, now, pp, oops, fed, collected, base, scan, hist>>

\* The one reading of the store-by-store runs: the initial baseline 0 gives
\* samples of 3 microseconds, hence a correction of 3.
ConcTimes == {t \in Times : \A u \in Times : TimeLeq(u, t)}

(***************************************************************************)
(* SpecConc: tp_timer store by store beside a reader, no reset.            *)
(***************************************************************************)
NextConc ==
    \/ \E t \in ConcTimes : CalStart(t)
    \/ \E id \in ProbeIds, seq \in SeqNos, threadnr \in ThreadNos,
          timesrepeated \in Repeats : TpEnter(id, seq, threadnr, timesrepeated)
    \/ TpHdr
    \/ \E t \in ConcTimes : TpStamp(t)
    \/ TpAdjust
    \/ TpInc
    \/ \E r \in LogReaders : TpOpen(r)
    \/ \E r \in LogReaders : SeqStart(r)
    \/ \E r \in LogReaders : SeqShow(r)
    \/ \E r \in LogReaders : SeqNext(r)
    \/ \E r \in LogReaders : SeqStop(r)

SpecConc == Init /\ [][NextConc]_vars

(***************************************************************************)
(* SpecReset: tp_timer store by store beside tp_release step by step.      *)
(***************************************************************************)
NextReset ==
    \/ \E t \in ConcTimes : CalStart(t)
    \/ \E id \in ProbeIds, seq \in SeqNos, threadnr \in ThreadNos,
          timesrepeated \in Repeats : TpEnter(id, seq, threadnr, timesrepeated)
    \/ TpHdr
    \/ \E t \in ConcTimes : TpStamp(t)
    \/ TpAdjust
    \/ TpInc
    \/ \E r \in LogReaders : TpOpen(r)
    \/ \E r \in LogReaders : RelBegin(r)
    \/ RelZero
    \/ RelCount

SpecReset == Init /\ [][NextReset]_vars

(***************************************************************************)
(* SpecReaders: every handler atomic, two readers open on the log, the     *)
(* readers' history kept.  Reader r1 reads in sessions while the other     *)
(* reader opens and closes.                                                *)
(***************************************************************************)
NextReaders ==
    \/ \E t \in LogTimes : TpTimerDirect(TPS_SOCK, 5, 7, 3, t)
    \/ \E r \in Readers : TpOpen(r)
    \/ \E r \in LogReaders : SeqStart(r)
    \/ \E r \in LogReaders : SeqShow(r)
    \/ \E r \in LogReaders : SeqNext(r)
    \/ \E r \in LogReaders : SeqStop(r)
    \/ \E r \in Readers : TpRelease(r)

SpecReaders == InitReaders /\ [][NextReaders]_vars

(***************************************************************************)
(* SpecScan: tp_timer_data scans buffers into the log, the clock standing  *)
(* still; a reader opens and closes between scans, which makes room.       *)
(***************************************************************************)
NextScan ==
    \/ \E b \in Buffers, t \in LogTimes : TpTimerData(TPS_SOCK, b.mem, b.tail, t)
    \/ \E t \in LogTimes : ScanEmit(t)
    \/ \E r \in LogReaders : TpOpen(r)
    \/ \E r \in LogReaders : TpRelease(r)

SpecScan == Init /\ [][NextScan]_vars

(***************************************************************************)
(* The event log and its reader: properties of Spec.                       *)
(***************************************************************************)
StoredArgs(d) ==
    [id |-> d.id, seq |-> d.seq, threadnr |-> d.threadnr,
     timesrepeated |-> d.timesrepeated]

GivenArgs(a) ==
    [id |-> a.id, seq |-> a.seq, threadnr |-> a.threadnr,
     timesrepeated |-> a.timesrepeated]

LogHoldsAppends ==
    /\ tp_timer_count = Len(appended)
    /\ \A i \in SlotIdx :
          i < tp_timer_count =>
              StoredArgs(tp_timer_space[i]) = GivenArgs(appended[i + 1])

AppendKeepsEntries ==
    \A i \in SlotIdx :
        (i < tp_timer_count /\ tp_timer_count' > tp_timer_count)
            => tp_timer_space'[i] = tp_timer_space[i]

\* C1: after N <= capacity accepted appends since the last reset the count is
\* N and entry i holds the probe id, sequence, stream id and repeat count of
\* the i-th append; an append never modifies an entry already stored.
C1_AppendsStoredInOrder == [](LogHoldsAppends) /\ [][AppendKeepsEntries]_vars

C1_Witness ==
    /\ tp_timer_count = TP_TIMER_SPACE
    /\ last.op = "stored"
    /\ appended[1].id # appended[2].id
    /\ tp_timer_space[1].id = appended[2].id

RejectedAtCapacity ==
    tp_timer_count >= TP_TIMER_SPACE
        => \/ UNCHANGED logVars
           \/ tp_timer_count' = 0 /\ \E r \in Readers : rd'[r].pc # rd[r].pc

\* C2: the count never exceeds the capacity, and at capacity no step but a
\* reset changes the count or any stored entry: every append is rejected
\* without writing.
C2_FullLogRejects ==
    [](tp_timer_count <= TP_TIMER_SPACE) /\ [][RejectedAtCapacity]_vars

C2_Witness ==
    /\ last.op = "rejected"
    /\ tp_timer_count = TP_TIMER_SPACE
    /\ \A i \in SlotIdx : tp_timer_space[i].id = appended[i + 1].id

ReaderCloses == \E r \in Readers : rd[r].pc = "open" /\ rd'[r].pc = "closed"

ResetClears ==
    ReaderCloses => tp_timer_count' = 0 /\ tp_timer_space' = ZeroSpace

EmptyLogShowsNothing ==
    tp_timer_count = 0 =>
        \A r \in Readers : rd'[r].out = rd[r].out \/ rd'[r].out = <<>>

FirstAppendAtZero ==
    (tp_timer_count = 0 /\ tp_timer_count' # 0) =>
        /\ tp_timer_count' = 1
        /\ tp_timer_space'[0].count = 0
        /\ StoredArgs(tp_timer_space'[0]) = GivenArgs(appended'[1])
        /\ \A i \in SlotIdx \ {0} : tp_timer_space'[i] = ZeroSlot

\* C3: closing a reader leaves the count 0 and every slot zeroed, an empty
\* log yields no record at any cursor position, and the next accepted append
\* is entry 0 with ordinal 0, also when the log was full before the reset.
C3_ResetClearsLog ==
    [][ResetClears /\ EmptyLogShowsNothing /\ FirstAppendAtZero]_vars

C3_Witness ==
    /\ last = [op |-> "stored", reset |-> "full"]
    /\ tp_timer_count = 1
    /\ tp_timer_space[0].count = 0
    /\ tp_timer_space[0].id = TPS_SOCK_TRANS

Min(a, b) == IF a < b THEN a ELSE b

\* the lines of the records at indices p .. q-1
Expected(p, q) ==
    IF q <= p THEN <<>>
    ELSE [k \in 1 .. (q - p) |-> Line(tp_timer_space[p + k - 1])]

SessionEmits(r) ==
    LET c == rd[r]
    IN  c.clean =>
          /\ c.pc = "show" => c.out = Expected(c.start, Min(c.spos, tp_timer_count))
          /\ c.pc = "next" =>
                 c.out = Expected(c.start, Min(c.spos + 1, tp_timer_count))
          /\ c.pc = "end" =>
                 /\ c.out = Expected(c.start, tp_timer_count)
                 /\ c.spos >= tp_timer_count

\* C4: with no append or reset since seq_start, a reader started at position
\* p on a log of N records has emitted, when seq_next returns the end, the
\* records p .. N-1 in order, each once, and nothing for a position >= N.
C4_ReaderDrainsInOrder == \A r \in Readers : SessionEmits(r)

C4_Witness ==
    /\ rd["r1"].pc = "end"
    /\ rd["r1"].clean
    /\ rd["r1"].start = 1
    /\ tp_timer_count = TP_TIMER_SPACE
    /\ Len(rd["r1"].out) = TP_TIMER_SPACE - 1
    /\ rd["r1"].out[1][2] # rd["r1"].out[2][2]

\* C5: every resident record's ordinal is its index, so the ordinals are
\* contiguous from 0 and restart at 0 after each reset.
C5_OrdinalIsIndex ==
    \A i \in SlotIdx : i < tp_timer_count => tp_timer_space[i].count = i

C5_Witness ==
    /\ last.reset = "partial"
    /\ tp_timer_count = TP_TIMER_SPACE
    /\ tp_timer_space[TP_TIMER_SPACE - 1].count = TP_TIMER_SPACE - 1

(***************************************************************************)
(* The calibrator and the stored timestamps: properties of SpecCal.        *)
(***************************************************************************)
\* C8: every stored record's tv_usec lies in 0 .. 999999.
C8_TimestampNormalized ==
    \A i \in SlotIdx :
        i < tp_timer_count =>
            /\ 0 <= tp_timer_space[i].tv_usec
            /\ tp_timer_space[i].tv_usec < USEC_PER_SEC

FrozenOnceConverged ==
    Converged => UNCHANGED <<cal_mean, cal_list, cal_count>>

\* C9: the calibrator is converged exactly from the TP_TIMER_CAL-th sample
\* on, and once it is converged no step changes the correction, the window
\* or the converged state.
C9_ConvergesOnce ==
    [](Converged <=> fed >= TP_TIMER_CAL) /\ [][FrozenOnceConverged]_vars

C9_Witness ==
    /\ cal_count = TP_TIMER_CAL + 1
    /\ cal_mean = 3
    /\ fed = TP_TIMER_CAL + 1
    /\ last.op = "stored"
    /\ cal_usec = 0
    /\ now.tv_usec = 3

IsAscending(a) == \A i, j \in CalIdx : i < j => a[i] <= a[j]

SameSamples(a, s) ==
    \A v \in {a[i] : i \in CalIdx} \cup {s[k] : k \in 1 .. Len(s)} :
        Cardinality({i \in CalIdx : a[i] = v})
            = Cardinality({k \in 1 .. Len(s) : s[k] = v})

\* the sample of rank k (from 0) in ascending order
RankValue(s, k) ==
    CHOOSE v \in {s[x] : x \in 1 .. Len(s)} :
        /\ Cardinality({x \in 1 .. Len(s) : s[x] < v}) <= k
        /\ k < Cardinality({x \in 1 .. Len(s) : s[x] <= v})

RECURSIVE RankSum(_, _, _)
RankSum(s, k, hi) == IF k < hi THEN RankValue(s, k) + RankSum(s, k + 1, hi) ELSE 0

\* the integer mean of the samples of rank TrimLo .. TrimHi - 1
TrimmedMean(s) == RankSum(s, TrimLo, TrimHi) \div (TrimHi - TrimLo)

\* C10: once converged, the window is the ascending permutation of the
\* samples collected and the correction is their trimmed mean.
C10_CorrectionIsTrimmedMean ==
    Converged =>
        /\ IsAscending(cal_list)
        /\ SameSamples(cal_list, collected)
        /\ cal_mean = TrimmedMean(collected)

RawWhileCollecting ==
    (fed' = fed + 1 /\ fed' < TP_TIMER_CAL) =>
        /\ tp_timer_count' = tp_timer_count + 1
        /\ cal_mean' = 0
        /\ tp_timer_space'[tp_timer_count].tv_sec = now'.tv_sec
        /\ tp_timer_space'[tp_timer_count].tv_usec = now'.tv_usec

\* C11: while the calibrator is collecting the correction is 0, and each of
\* the first TP_TIMER_CAL - 1 accepted appends stores the clock reading it
\* took, unadjusted.
C11_RawWhileCollecting ==
    [](~Converged => cal_mean = 0) /\ [][RawWhileCollecting]_vars

C11_Witness ==
    /\ fed = TP_TIMER_CAL - 1
    /\ last.op = "stored"
    /\ cal_list[0] = 3
    /\ tp_timer_count > 0
    /\ tp_timer_space[tp_timer_count - 1].tv_usec = 3
    /\ tp_timer_space[tp_timer_count - 1].tv_sec = 11

\* microseconds from reading b to reading t
Elapsed(b, t) == (t.tv_sec - b.tv_sec) * USEC_PER_SEC + t.tv_usec - b.tv_usec

SampleIsElapsed ==
    (collected' # collected /\ base # <<>>) =>
        collected'[Len(collected')] = Elapsed(base[1], now')

\* C19: each sample fed to the window is the time elapsed, in microseconds,
\* from the last cal_start's reading to the append's reading, also when the
\* seconds advance between the two.
C19_SampleIsElapsed == [][SampleIsElapsed]_vars

\* the samples collected, as cal_stop hands them to cal_sort
Window(s) == [k \in CalIdx |-> s[k + 1]]

\* C20: for every window of samples, cal_sort(cal_list, 0, TP_TIMER_CAL - 1)
\* ends without i or j leaving the indices 0 .. TP_TIMER_CAL - 1, at every
\* level of the recursion.
C20_SortStaysInWindow ==
    Len(collected) = TP_TIMER_CAL =>
        ~CalSort(Window(collected), 0, TP_TIMER_CAL - 1).oob

(***************************************************************************)
(* The producer beside a reader or a reset: properties of SpecConc and     *)
(* SpecReset.                                                              *)
(***************************************************************************)
\* the record the k-th completed append (from 1) leaves in its slot
CompleteRecord(k) ==
    LET a == appended[k]
    IN  [count |-> k - 1, id |-> a.id, seq |-> a.seq, threadnr |-> a.threadnr,
         timesrepeated |-> a.timesrepeated, tv_sec |-> a.t.tv_sec,
         tv_usec |-> a.t.tv_usec - a.corr]

\* the slots below the count, as far as their last store (line 349) is done
WrittenBelowCount ==
    \A i \in SlotIdx :
        i < tp_timer_count =>
            /\ pp.pc \in {"hdr", "ts", "adj"} => i # pp.data
            /\ i < Len(appended) + (IF pp.pc = "inc" THEN 1 ELSE 0)
            /\ i < Len(appended) => tp_timer_space[i] = CompleteRecord(i + 1)

EmitsOnlyComplete ==
    \A r \in Readers :
        \A k \in 1 .. Len(rd[r].out) :
            \E n \in 1 .. Len(appended) : rd[r].out[k] = Line(CompleteRecord(n))

\* C6: beside the producer's single stores and with no reset, every slot
\* below the count holds its completely written record, and every line a
\* reader has emitted is the line of a completely written record.
C6_ReaderSeesCompleteRecords == WrittenBelowCount /\ EmitsOnlyComplete

C6_Witness ==
    /\ pp.pc = "adj"
    /\ pp.data = TP_TIMER_SPACE - 1
    /\ tp_timer_space[pp.data].tv_usec # 0
    /\ cal_mean # 0
    /\ rd["r1"].pc = "next"
    /\ rd["r1"].spos = pp.data
    /\ Len(rd["r1"].out) = pp.data

\* C7: whenever neither tp_timer nor tp_release is running, every slot below
\* the count holds the complete record of an append completed since the last
\* reset, with ordinal i, and the count is the number of those appends.
C7_ResetTearsNoRecord ==
    (pp.pc = "idle" /\ rel.pc = "idle") =>
        /\ tp_timer_count = Len(appended)
        /\ \A i \in SlotIdx :
              i < tp_timer_count => tp_timer_space[i] = CompleteRecord(i + 1)

(***************************************************************************)
(* Several readers, and when the log is cleared: properties of SpecReaders.*)
(***************************************************************************)
IsPrefix(p, q) == Len(p) <= Len(q) /\ \A k \in 1 .. Len(p) : p[k] = q[k]

\* C14: a reader that has reached the end of the sequence has been shown,
\* first and in order, every record that was resident when it was opened,
\* whatever the other reader did in between.
C14_ReaderYieldsResidentRecords ==
    \A r \in Readers :
        rd[r].pc = "end" => IsPrefix(hist.resident[r], hist.head[r])

\* reader r was shown every record now in the log
Drained(r) == \A i \in SlotIdx : i < tp_timer_count => i \in hist.seen[r]

ClearedOnlyByDrainedReader ==
    \A r \in Readers :
        (rd[r].pc = "open" /\ rd'[r].pc = "closed") => Drained(r)

AppendOnlyBetweenClears ==
    ~ReaderCloses =>
        /\ tp_timer_count' >= tp_timer_count
        /\ \A i \in SlotIdx :
              i < tp_timer_count => tp_timer_space'[i] = tp_timer_space[i]

\* C15: the log is cleared only at the close of a reader that was shown every
\* record resident in it, and between two clears the count never decreases
\* and no stored entry changes.
C15_ClearedOnlyWhenDrained ==
    [][ClearedOnlyByDrainedReader /\ AppendOnlyBetweenClears]_vars

(***************************************************************************)
(* The payload scanner: properties of SpecScan.                            *)
(***************************************************************************)
\* 8 consecutive 0xff bytes from offset p on
IsSentinelAt(mem, p) == \A k \in 1 .. 8 : mem[p + k] = FF

\* the offsets of the sentinels that lie before the boundary
SentinelsBefore(mem, tail) == {p \in 0 .. (tail - 8) : IsSentinelAt(mem, p)}

\* the (stream id, sequence) pairs at a stride of 4 words from start, as long
\* as 2 words remain before the boundary
PairCount(start, tail) ==
    IF start + 8 > tail THEN 0 ELSE ((tail - 8 - start) \div 16) + 1

PairsRead(mem, start, tail) ==
    [k \in 1 .. PairCount(start, tail) |->
        [threadnr |-> IntAt(mem, start + 16 * (k - 1)),
         seq      |-> IntAt(mem, start + 16 * (k - 1) + 4)]]

\* the length of the maximal run of equal pairs at the head of ps
HeadRun(ps) ==
    CHOOSE n \in 1 .. Len(ps) :
        /\ \A k \in 1 .. n : ps[k] = ps[1]
        /\ n = Len(ps) \/ ps[n + 1] # ps[1]

RECURSIVE RunLengths(_)
\* the run-length encoding of ps
RunLengths(ps) ==
    IF ps = <<>> THEN <<>>
    ELSE <<[threadnr |-> ps[1].threadnr, seq |-> ps[1].seq,
            timesrepeated |-> HeadRun(ps)]>>
         \o RunLengths(SubSeq(ps, HeadRun(ps) + 1, Len(ps)))

RECURSIVE SumRepeats(_)
SumRepeats(rs) ==
    IF rs = <<>> THEN 0 ELSE Head(rs).timesrepeated + SumRepeats(Tail(rs))

\* slot d holds the record of the call c made for probe id
Holds(d, id, c) ==
    /\ d.id = id
    /\ d.seq = c.seq
    /\ d.threadnr = c.threadnr
    /\ d.timesrepeated = c.timesrepeated

ScanCompletes == scan.pc = "emit" /\ scan'.pc = "idle" /\ ~oops'

ScanStoresRuns ==
    ScanCompletes =>
        LET ps == PairsRead(scan.mem, scan.start, scan.tail)
            rs == RunLengths(ps)
        IN  (Len(ps) >= 1 /\ scan.from + Len(rs) <= TP_TIMER_SPACE) =>
                /\ tp_timer_count' = scan.from + Len(rs)
                /\ \A k \in 1 .. Len(rs) :
                      Holds(tp_timer_space'[scan.from + k - 1], scan.id, rs[k])
                /\ SumRepeats(rs) = Len(ps)

\* C12: when the sentinel is found, at least one pair is read and the log has
\* room, the records one scan appends are, in order, the run-length encoding
\* of the pairs read from the payload start: one record per maximal run, its
\* repeat count the run's length, the repeat counts summing to the pairs read.
C12_ScanStoresRunLengths == [][ScanStoresRuns]_vars

C12_Witness ==
    /\ scan.pc = "idle"
    /\ scan.result = "scanned"
    /\ PairCount(scan.start, scan.tail) = 4
    /\ scan.from = 1
    /\ tp_timer_count = 3
    /\ Holds(tp_timer_space[1], TPS_SOCK, [seq |-> 5, threadnr |-> 1,
                                          timesrepeated |-> 3])
    /\ Holds(tp_timer_space[2], TPS_SOCK, [seq |-> 6, threadnr |-> 1,
                                          timesrepeated |-> 1])

NoSentinelNoRecord ==
    (scan' # scan /\ SentinelsBefore(scan'.mem, scan'.tail) = {}) =>
        UNCHANGED logVars

\* C13: a scan of a buffer with no sentinel before its boundary leaves the
\* log's count and entries as they were, whatever lies at or behind the
\* boundary.
C13_NoSentinelNoRecord == [][NoSentinelNoRecord]_vars

\* what the walk leaves to the trailing call
OpenRun(ps) ==
    IF ps = <<>> THEN Call(0, 0, 0)
    ELSE LET rs == RunLengths(ps)
         IN  Call(rs[Len(rs)].seq, rs[Len(rs)].threadnr,
                  rs[Len(rs)].timesrepeated)

TrailingCall ==
    scan.result = "scanned" =>
        LET ps == PairsRead(scan.mem, scan.start, scan.tail)
        IN  /\ Len(scan.calls) = Max(Len(RunLengths(ps)), 1)
            /\ scan.calls[Len(scan.calls)] = OpenRun(ps)
            /\ \A k \in 1 .. (Len(scan.calls) - 1) :
                  scan.calls[k].timesrepeated # 0

CallsAppend ==
    (scan.pc = "emit" /\ scan' # scan /\ ~LogFull /\ ~oops') =>
        /\ tp_timer_count' = tp_timer_count + 1
        /\ Holds(tp_timer_space'[tp_timer_count], scan.id, Head(scan.todo))

\* C16: a scan that finds the sentinel makes exactly one trailing call of
\* tp_timer, for the open run whatever its count: sequence 0, stream id 0 and
\* repeat count 0 when no pair was read; the calls before it, for the runs
\* closed during the walk, have a non-zero count; each call appends its record.
C16_TrailingAppend == [](TrailingCall) /\ [][CallsAppend]_vars

C16_Witness ==
    /\ scan.pc = "idle"
    /\ scan.result = "scanned"
    /\ PairCount(scan.start, scan.tail) = 0
    /\ scan.tail - scan.start = 7
    /\ scan.from = 1
    /\ tp_timer_count = 2
    /\ tp_timer_space[1].count = 1
    /\ Holds(tp_timer_space[1], TPS_SOCK, Call(0, 0, 0))
    /\ tp_timer_space[0].timesrepeated # 0

\* the offset of the first sentinel before the boundary
FirstSentinel(mem, tail) ==
    CHOOSE p \in SentinelsBefore(mem, tail) :
        \A q \in SentinelsBefore(mem, tail) : p <= q

\* the offset of the first byte after the run of 0xff bytes that starts there
RunEnd(mem, tail) ==
    CHOOSE q \in (FirstSentinel(mem, tail) + 8) .. tail :
        /\ \A k \in FirstSentinel(mem, tail) .. (q - 1) : mem[k + 1] = FF
        /\ q = tail \/ mem[q + 1] # FF

\* C17: for a buffer that contains a sentinel the scan computes, as payload
\* start, the offset of the first byte after the maximal run of 0xff bytes
\* that begins at the first sentinel.
C17_PayloadStartAfterRun ==
    (scan.result # "none" /\ SentinelsBefore(scan.mem, scan.tail) # {}) =>
        /\ scan.result = "scanned"
        /\ scan.start = RunEnd(scan.mem, scan.tail)

\* C18: a scan reads no byte at or behind the boundary.
C18_ReadsWithinBuffer == scan.result # "none" => scan.hi <= scan.tail

====
